---- MODULE Spec2Model ----
(***************************************************************************)
(* Generational references (src/src/lib.rs): an arena of generation        *)
(* counters (GrArenaInternal), owning handles (Gr) and checked non-owning  *)
(* handles (Weak).                                                         *)
(*                                                                         *)
(* Slot indices, block indices and offsets are 0-based as in the source;   *)
(* TLA+ sequences are 1-based, so cell (b, o) is gens[b + 1][o + 1].       *)
(***************************************************************************)
EXTENDS Integers, Sequences, FiniteSets, TLC

\* ------------------------------------------------------------------ bounds
\* Block size.  The source sets 1 << 9; the model scales it down so that
\* growth, several blocks and slot reuse all happen within the bounds.
MAX_ALLOCS == 1
\* Number of heap addresses Box::new can hand out (at most this many values
\* are live at once; an exhausted heap aborts the process).
MaxAddr == 2
\* Total number of alloc calls in one behaviour.
MaxAllocCalls == 3
\* Width of a generation counter in bits (u64 in the source, scaled down;
\* wide enough that no counter wraps within MaxAllocCalls drops).
GenBits == 3

\* The values handed to alloc.
Values == {"a", "b"}
Addrs == 1..MaxAddr
Ids == 1..MaxAllocCalls

\* 2^n
RECURSIVE Pow2(_)
Pow2(n) == IF n = 0 THEN 1 ELSE 2 * Pow2(n - 1)
GenModulus == Pow2(GenBits)

\* ------------------------------------------------------------------- state
VARIABLES
    gens,      \* GrArenaInternal.gens: sequence of blocks of MAX_ALLOCS counters
    unused,    \* GrArenaInternal.unused: the free list, a stack of slot indices
    heap,      \* the global allocator: address -> boxed value, or Freed
    grs,       \* the Gr handles that exist (not yet dropped); id and val name the
               \* allocation and the value given to alloc, for the properties only
    weaks,     \* the Weak handles that exist; `of` names the allocation of the Gr
               \* a handle was derived from, for the properties only
    nextId,    \* number of alloc calls made so far (names each allocation)
    freed,     \* history: allocation id -> number of times its Box was freed
    released,  \* history: allocation id -> number of times its slot was pushed back
    dstack,    \* Drop for Gr calls in progress, innermost last: [gr, stage]
    ret,       \* the last call and what it returned (for alloc: how many times
               \* it grew the arena; for weak: also whether that Gr had been asked
               \* for a Weak before; for drop: the allocation dropped)
    since,     \* history: Weak handle -> number of times `*gen += 1` has run on
               \* its counter cell since the handle was made
    held       \* the references returned by get() that the caller still holds:
               \* the address, and the allocation whose value was there

vars == <<gens, unused, heap, grs, weaks, nextId, freed, released, dstack, ret,
          since, held>>

\* A heap address that holds no live Box.
Freed == [id |-> 0, val |-> "freed"]

\* Option<&T>
None == [tag |-> "None"]
Some(p) == [tag |-> "Some", ref |-> p]

\* GrArena::new: no blocks, empty free list.
Init ==
    /\ gens = <<>>
    /\ unused = <<>>
    /\ heap = [a \in Addrs |-> Freed]
    /\ grs = {}
    /\ weaks = {}
    /\ nextId = 0
    /\ freed = [i \in Ids |-> 0]
    /\ released = [i \in Ids |-> 0]
    /\ dstack = <<>>
    /\ ret = [op |-> "new"]
    /\ since = <<>>
    /\ held = {}

\* ----------------------------------------------------------------- helpers
\* Gr::gen with the block index forgotten: slots of different blocks share a cell.
Gr_gen_NoBlock(gen_idx) == <<0, gen_idx % MAX_ALLOCS>>

\* The counter cell a slot index names: (block, offset).
Gr_gen(gen_idx) == <<gen_idx \div MAX_ALLOCS, gen_idx % MAX_ALLOCS>>

\* *cell
ReadGen(g, cell) == g[cell[1] + 1][cell[2] + 1]

\* A saturating increment: the counter stays at its largest value.
Incr_Saturating(n) == IF n = GenModulus - 1 THEN n ELSE n + 1

\* *gen += 1 on a counter of GenBits bits
Incr(n) == (n + 1) % GenModulus

\* Drop for Gr without `*gen += 1`.
BumpGen_Forgotten(g, cell) == g

\* *cell += 1
BumpGen(g, cell) ==
    [g EXCEPT ![cell[1] + 1][cell[2] + 1] = Incr(@)]

\* The None arm of alloc putting the new block first: the existing blocks do
\* not keep their place.
Grow_Prepend(arena) ==
    [gens   |-> <<[i \in 1..MAX_ALLOCS |-> 1]>> \o arena.gens,
     unused |-> arena.unused \o
                [i \in 1..MAX_ALLOCS |-> (i - 1) + Len(arena.gens) * MAX_ALLOCS]]

\* The None arm of alloc rebuilding the whole table: every counter, old and
\* new, is 1 after growth.
Grow_Reinit(arena) ==
    [gens   |-> [b \in 1..(Len(arena.gens) + 1) |-> [i \in 1..MAX_ALLOCS |-> 1]],
     unused |-> arena.unused \o
                [i \in 1..MAX_ALLOCS |-> (i - 1) + Len(arena.gens) * MAX_ALLOCS]]

\* The None arm of alloc with the new block zero-initialised.
Grow_ZeroInit(arena) ==
    [gens   |-> Append(arena.gens, [i \in 1..MAX_ALLOCS |-> 0]),
     unused |-> arena.unused \o
                [i \in 1..MAX_ALLOCS |-> (i - 1) + Len(arena.gens) * MAX_ALLOCS]]

\* The None arm of alloc with `(arena.gens.len()-1) * MAX_ALLOCS` left out:
\* every block pushes the indices of block 0.
Grow_NoOffset(arena) ==
    [gens   |-> Append(arena.gens, [i \in 1..MAX_ALLOCS |-> 1]),
     unused |-> arena.unused \o [i \in 1..MAX_ALLOCS |-> i - 1]]

\* The None arm of alloc: one new block of counters, all 1, and the indices
\* of that block pushed on the free list in ascending order.
Grow(arena) ==
    [gens   |-> Append(arena.gens, [i \in 1..MAX_ALLOCS |-> 1]),
     unused |-> arena.unused \o
                [i \in 1..MAX_ALLOCS |-> (i - 1) + Len(arena.gens) * MAX_ALLOCS]]

\* A pop that re-initialises the counter of the slot it hands out.
Pop_ResetGen(arena) ==
    LET idx == arena.unused[Len(arena.unused)]
    IN [gens    |-> [arena.gens EXCEPT
                        ![(idx \div MAX_ALLOCS) + 1][(idx % MAX_ALLOCS) + 1] = 1],
        unused  |-> SubSeq(arena.unused, 1, Len(arena.unused) - 1),
        gen_idx |-> idx]

\* A free list used as a queue: the oldest element is taken.
Pop_First(arena) ==
    [gens    |-> arena.gens,
     unused  |-> SubSeq(arena.unused, 2, Len(arena.unused)),
     gen_idx |-> arena.unused[1]]

\* Vec::pop on the free list: the last element, or nothing.
Pop(arena) ==
    [gens    |-> arena.gens,
     unused  |-> SubSeq(arena.unused, 1, Len(arena.unused) - 1),
     gen_idx |-> arena.unused[Len(arena.unused)]]

\* An alloc that adds a block on every call, without trying the free list first.
AllocLoop_GrowFirst(arena, grown) ==
    [arena |-> Pop(Grow(arena)), grown |-> grown + 1]

\* The loop of alloc: pop; on an empty free list grow and go round again.
\* Yields the arena after the call, the slot index taken and the number of
\* times the None arm ran.
RECURSIVE AllocLoop(_, _)
AllocLoop(arena, grown) ==
    IF arena.unused = <<>>
    THEN AllocLoop(Grow(arena), grown + 1)
    ELSE [arena |-> Pop(arena), grown |-> grown]

\* Weak::get: compare the live counter with the snapshot.
Weak_get(g, w) ==
    IF ReadGen(g, w.gen) # w.alloc_gen THEN None ELSE Some(w.ptr)

\* Gr::weak: the value pointer, the counter cell and the counter's value now.
Gr_weak(g, gr) ==
    [ptr       |-> gr.ptr,
     gen       |-> Gr_gen(gr.gen_idx),
     alloc_gen |-> ReadGen(g, Gr_gen(gr.gen_idx)),
     of        |-> gr.id]

\* Drop for Gr without the push: the slot is never handed out again.
PushUnused_Forgotten(u, gen_idx) == u

\* (*self.arena).unused.push(self.gen_idx)
PushUnused(u, gen_idx) == Append(u, gen_idx)

\* Drop for Gr without Box::from_raw: the value is leaked.
FreeBox_Forgotten(h, p) == h

\* Box::from_raw(ptr) dropped at once: the value is destroyed, the address freed.
FreeBox(h, p) == [h EXCEPT ![p] = Freed]

\* The history after a Weak is made: a new handle starts at 0.
SinceWeak(h, w) == IF w \in DOMAIN h THEN h ELSE h @@ (w :> 0)

\* The history after `*gen += 1` has run on `cell`.
SinceBump(h, cell) ==
    [w \in DOMAIN h |-> IF w.gen = cell THEN h[w] + 1 ELSE h[w]]

\* No Drop for Gr is running, or the innermost one is running the value's
\* destructor: the only places where calls of the interface can be made.
Callable == IF dstack = <<>> THEN TRUE ELSE dstack[Len(dstack)].stage = "destructor"

\* ----------------------------------------------------------------- actions
\* GrArena::alloc(v): take a slot (growing if needed), box v at a free address.
GrArena_alloc(v, a) ==
    /\ Callable
    /\ nextId < MaxAllocCalls
    /\ heap[a] = Freed
    /\ LET r  == AllocLoop([gens |-> gens, unused |-> unused], 0)
           gr == [ptr |-> a, gen_idx |-> r.arena.gen_idx, id |-> nextId + 1, val |-> v]
       IN /\ gens' = r.arena.gens
          /\ unused' = r.arena.unused
          /\ heap' = [heap EXCEPT ![a] = [id |-> nextId + 1, val |-> v]]
          /\ grs' = grs \cup {gr}
          /\ nextId' = nextId + 1
          /\ ret' = [op |-> "alloc", grown |-> r.grown]
    /\ UNCHANGED <<weaks, freed, released, dstack, since, held>>

\* A weak() that takes a fresh generation for every handle it gives out.
Gr_weak_call_Bump(gr) ==
    /\ Callable
    /\ gr \in grs
    /\ gens' = BumpGen(gens, Gr_gen(gr.gen_idx))
    /\ weaks' = weaks \cup {Gr_weak(gens', gr)}
    /\ since' = SinceWeak(SinceBump(since, Gr_gen(gr.gen_idx)), Gr_weak(gens', gr))
    /\ ret' = [op |-> "weak", weak |-> Gr_weak(gens', gr),
                again |-> \E w \in weaks : w.of = gr.id]
    /\ UNCHANGED <<unused, heap, grs, nextId, freed, released, dstack, held>>

\* Gr::weak(&self)
Gr_weak_call(gr) ==
    /\ Callable
    /\ gr \in grs
    /\ weaks' = weaks \cup {Gr_weak(gens, gr)}
    /\ since' = SinceWeak(since, Gr_weak(gens, gr))
    /\ ret' = [op |-> "weak", weak |-> Gr_weak(gens, gr),
                again |-> \E w \in weaks : w.of = gr.id]
    /\ UNCHANGED <<gens, unused, heap, grs, nextId, freed, released, dstack, held>>

\* Weak::get(&self)
Weak_get_call(w) ==
    /\ Callable
    /\ w \in weaks
    /\ ret' = [op |-> "get", weak |-> w, res |-> Weak_get(gens, w)]
    /\ UNCHANGED <<gens, unused, heap, grs, weaks, nextId, freed, released, dstack, since, held>>

\* Drop for Gr, the whole handler: free the box, bump the counter, push the index.
Gr_drop(gr) ==
    /\ dstack = <<>>
    /\ gr \in grs
    /\ heap' = FreeBox(heap, gr.ptr)
    /\ gens' = BumpGen(gens, Gr_gen(gr.gen_idx))
    /\ since' = SinceBump(since, Gr_gen(gr.gen_idx))
    /\ unused' = PushUnused(unused, gr.gen_idx)
    /\ grs' = grs \ {gr}
    /\ freed' = [freed EXCEPT ![gr.id] = @ + 1]
    /\ released' = [released EXCEPT ![gr.id] = @ + 1]
    /\ ret' = [op |-> "drop", id |-> gr.id]
    /\ UNCHANGED <<weaks, nextId, dstack, held>>

Next ==
    \/ \E v \in Values, a \in Addrs : GrArena_alloc(v, a)
    \/ \E gr \in grs : Gr_weak_call(gr)
    \/ \E w \in weaks : Weak_get_call(w)
    \/ \E gr \in grs : Gr_drop(gr)

Spec == Init /\ [][Next]_vars

\* ------------------------------------------- Drop for Gr, statement by statement
\* drop(&mut self) is entered; Box::from_raw(self.ptr) is built and dropped,
\* which first runs the value's own destructor (code of T, free to call the
\* interface) ...
Gr_drop_enter(gr) ==
    /\ Callable
    /\ gr \in grs
    /\ grs' = grs \ {gr}
    /\ dstack' = Append(dstack, [gr |-> gr, stage |-> "destructor"])
    /\ ret' = [op |-> "drop", id |-> gr.id]
    /\ UNCHANGED <<gens, unused, heap, weaks, nextId, freed, released, since, held>>

\* The innermost Drop in progress.
Top == dstack[Len(dstack)]
SetStage(st) == [dstack EXCEPT ![Len(dstack)].stage = st]

\* ... and then frees the storage (line 95).
Gr_drop_box ==
    /\ dstack # <<>>
    /\ Top.stage = "destructor"
    /\ heap' = FreeBox(heap, Top.gr.ptr)
    /\ freed' = [freed EXCEPT ![Top.gr.id] = @ + 1]
    /\ dstack' = SetStage("freed")
    /\ UNCHANGED <<gens, unused, grs, weaks, nextId, released, ret, since, held>>

\* *gen += 1 (lines 96-97)
Gr_drop_bump ==
    /\ dstack # <<>>
    /\ Top.stage = "freed"
    /\ gens' = BumpGen(gens, Gr_gen(Top.gr.gen_idx))
    /\ since' = SinceBump(since, Gr_gen(Top.gr.gen_idx))
    /\ dstack' = SetStage("bumped")
    /\ UNCHANGED <<unused, heap, grs, weaks, nextId, freed, released, ret, held>>

\* unused.push(self.gen_idx) (line 98), and drop returns.
Gr_drop_push ==
    /\ dstack # <<>>
    /\ Top.stage = "bumped"
    /\ unused' = PushUnused(unused, Top.gr.gen_idx)
    /\ released' = [released EXCEPT ![Top.gr.id] = @ + 1]
    /\ dstack' = SubSeq(dstack, 1, Len(dstack) - 1)
    /\ UNCHANGED <<gens, heap, grs, weaks, nextId, freed, ret, since, held>>

NextSteps ==
    \/ \E v \in Values, a \in Addrs : GrArena_alloc(v, a)
    \/ \E gr \in grs : Gr_weak_call(gr)
    \/ \E w \in weaks : Weak_get_call(w)
    \/ \E gr \in grs : Gr_drop_enter(gr)
    \/ Gr_drop_box
    \/ Gr_drop_bump
    \/ Gr_drop_push

\* The same program with Drop for Gr taken one statement at a time.
SpecSteps == Init /\ [][NextSteps]_vars

\* ------------------------------------------------- a long-running arena
\* `drop(arena.alloc(v))`, k times over: what k alloc calls, each followed at
\* once by the drop of the Gr it returned, make of the arena.
RECURSIVE Cycles(_, _)
Cycles(arena, k) ==
    IF k = 0 THEN arena
    ELSE LET r == AllocLoop(arena, 0).arena
         IN Cycles([gens   |-> BumpGen(r.gens, Gr_gen(r.gen_idx)),
                    unused |-> PushUnused(r.unused, r.gen_idx)], k - 1)

\* The largest number of such cycles after which a counter that started at 2
\* has not yet wrapped, and the fewest from which MaxAllocCalls further drops
\* can wrap it.
MostCycles == GenModulus - 3
FewestCycles == IF MostCycles > MaxAllocCalls THEN MostCycles - MaxAllocCalls ELSE 0

\* The program after `g = alloc("a"); w = g.weak(); drop(g)` and then k cycles
\* `drop(alloc(v))` on the same slot: w is stale, its counter has been
\* incremented k + 1 times and has not wrapped yet.  Allocations are numbered
\* from here on; the one w came from has number 0.
InitWrap ==
    \E k \in FewestCycles..MostCycles :
        LET a1 == AllocLoop([gens |-> <<>>, unused |-> <<>>], 0).arena
            g  == [ptr |-> 1, gen_idx |-> a1.gen_idx, id |-> 0, val |-> "a"]
            w  == Gr_weak(a1.gens, g)
            a2 == [gens   |-> BumpGen(a1.gens, Gr_gen(g.gen_idx)),
                   unused |-> PushUnused(a1.unused, g.gen_idx)]
            a3 == Cycles(a2, k)
        IN /\ gens = a3.gens
           /\ unused = a3.unused
           /\ weaks = {w}
           /\ since = (w :> k + 1)
           /\ heap = [a \in Addrs |-> Freed]
           /\ grs = {}
           /\ nextId = 0
           /\ freed = [i \in Ids |-> 0]
           /\ released = [i \in Ids |-> 0]
           /\ dstack = <<>>
           /\ ret = [op |-> "drop", id |-> 0]
           /\ held = {}

\* Drop for Gr in a build with overflow checks, on a counter at its largest
\* value: the box is freed (line 95), `*gen += 1` (line 97) panics, and
\* neither the increment nor the push happens.
Gr_drop_overflow_panic(gr) ==
    /\ dstack = <<>>
    /\ gr \in grs
    /\ ReadGen(gens, Gr_gen(gr.gen_idx)) = GenModulus - 1
    /\ heap' = FreeBox(heap, gr.ptr)
    /\ grs' = grs \ {gr}
    /\ freed' = [freed EXCEPT ![gr.id] = @ + 1]
    /\ ret' = [op |-> "panic", id |-> gr.id]
    /\ UNCHANGED <<gens, unused, weaks, nextId, released, dstack, since, held>>

\* The interface on a long-running arena; at the largest counter value the
\* increment wraps (no overflow checks) or panics (overflow checks).
NextWrap ==
    \/ \E v \in Values, a \in Addrs : GrArena_alloc(v, a)
    \/ \E gr \in grs : Gr_weak_call(gr)
    \/ \E w \in weaks : Weak_get_call(w)
    \/ \E gr \in grs : Gr_drop(gr)
    \/ \E gr \in grs : Gr_drop_overflow_panic(gr)

SpecWrap == InitWrap /\ [][NextWrap]_vars

\* ------------------------------------------------- references kept by callers
\* `let r = w.get()` with a Some result that the caller keeps: get(&self)
\* returns Option<&T> with the lifetime of the borrow of the Weak (line 117),
\* so r borrows w and nothing else.  held records the address r points to and
\* the allocation w was derived from.
Weak_get_keep(w) ==
    /\ Callable
    /\ w \in weaks
    /\ Weak_get(gens, w).tag = "Some"
    /\ held' = held \cup {[ref |-> Weak_get(gens, w).ref, of |-> w.of]}
    /\ ret' = [op |-> "get", weak |-> w, res |-> Weak_get(gens, w)]
    /\ UNCHANGED <<gens, unused, heap, grs, weaks, nextId, freed, released, dstack, since>>

\* The caller's last use of r: the borrow ends.
Ref_end(r) ==
    /\ r \in held
    /\ held' = held \ {r}
    /\ UNCHANGED <<gens, unused, heap, grs, weaks, nextId, freed, released, dstack, ret, since>>

\* The interface as safe code can use it: no Gr is borrowed by a kept
\* reference, so alloc, weak, get and the drop of any Gr stay callable.
NextHold ==
    \/ \E v \in Values, a \in Addrs : GrArena_alloc(v, a)
    \/ \E gr \in grs : Gr_weak_call(gr)
    \/ \E w \in weaks : Weak_get_call(w)
    \/ \E w \in weaks : Weak_get_keep(w)
    \/ \E r \in held : Ref_end(r)
    \/ \E gr \in grs : Gr_drop(gr)

SpecHold == Init /\ [][NextHold]_vars

\* ------------------------------------------------------------------ claims
\* The allocation `id` has been made and its Gr has been dropped.
Dropped(id) == id \in 1..nextId /\ \A gr \in grs : gr.id # id

\* C1 (P1, liveness while owned): as long as a Gr has not been dropped, every
\* Weak derived from it returns Some from get(), and the reference is to the
\* value that Gr owns: the value given to its alloc, in that Gr's own box.
C1_LiveWhileOwned ==
    \A gr \in grs : \A w \in weaks :
        w.of = gr.id =>
            /\ Weak_get(gens, w) = Some(gr.ptr)
            /\ heap[gr.ptr] = [id |-> gr.id, val |-> gr.val]

\* C1's case: get() has just returned Some for a Weak of a live Gr, after a
\* later alloc grew the arena and another Gr was dropped.
C1_Witness ==
    /\ ret.op = "get"
    /\ ret.res.tag = "Some"
    /\ \E gr \in grs :
          /\ ret.weak.of = gr.id
          /\ Len(gens) >= 2
          /\ \E j \in 1..nextId : j > gr.id /\ Dropped(j)

\* C2 (P2, invalidation on destruction): in every state after a Gr has been
\* dropped, every Weak derived from it returns None from get().
C2_NoneAfterDrop ==
    \A w \in weaks : Dropped(w.of) => Weak_get(gens, w) = None

\* C2's case: get() has just returned None for a Weak of a dropped Gr, after
\* later allocations, one of which grew the arena.
C2_Witness ==
    /\ ret.op = "get"
    /\ ret.res = None
    /\ Dropped(ret.weak.of)
    /\ nextId >= ret.weak.of + 2
    /\ Len(gens) >= 2

\* C3 (P3, no false revival): a Weak returns Some only while the slot of its
\* counter is occupied by the Gr it was derived from and the slot's counter
\* equals its snapshot; so when the slot has a new occupant, a Weak of the
\* previous occupant returns None while, in the same state, a Weak of the new
\* occupant returns Some of the new value.
C3_NoFalseRevival ==
    /\ \A w \in weaks :
          Weak_get(gens, w).tag = "Some" =>
              /\ ReadGen(gens, w.gen) = w.alloc_gen
              /\ \E gr \in grs : Gr_gen(gr.gen_idx) = w.gen /\ gr.id = w.of
    /\ \A old \in weaks : \A new \in weaks : \A gr \in grs :
          (old.gen = new.gen /\ old.of # gr.id /\ new.of = gr.id) =>
              /\ Weak_get(gens, old) = None
              /\ Weak_get(gens, new) = Some(gr.ptr)
              /\ heap[gr.ptr] = [id |-> gr.id, val |-> gr.val]

\* C3's case: a slot has been reused, at the same heap address, and get() has
\* just returned None for the Weak of the previous occupant while a Weak of
\* the new occupant exists.
C3_Witness ==
    /\ ret.op = "get"
    /\ ret.res = None
    /\ \E new \in weaks : \E gr \in grs :
          /\ new.of = gr.id
          /\ new.gen = ret.weak.gen
          /\ new.ptr = ret.weak.ptr
          /\ new.of # ret.weak.of
          /\ new.alloc_gen = ret.weak.alloc_gen + 1

\* The slot indices that exist in the arena.
Slots == 0..(MAX_ALLOCS * Len(gens) - 1)
\* The set of indices on the free list.
Unused == {unused[i] : i \in DOMAIN unused}
\* The slot indices held by live Gr handles.
Held == {gr.gen_idx : gr \in grs}

\* C4 (free-list invariant): every slot index that exists in the arena is on
\* the free list if and only if no live Gr has it as its gen_idx.
C4_FreeListInvariant ==
    \A idx \in Slots : (idx \in Unused) <=> (idx \notin Held)

\* C4's case: after a drop, with two blocks, one slot released by a drop is
\* on the free list and another slot is held.
C4_Witness ==
    /\ ret.op = "drop"
    /\ Len(gens) >= 2
    /\ Held # {}
    /\ \E idx \in Unused : ReadGen(gens, Gr_gen(idx)) >= 2

\* C5 (at most one Gr per slot): no two live Gr values have the same gen_idx.
C5_OneGrPerSlot ==
    \A g1 \in grs : \A g2 \in grs : g1.gen_idx = g2.gen_idx => g1 = g2

\* C5's case: alloc has just returned; two Gr are live and one of them sits in
\* a slot that a dropped Gr held before.
C5_Witness ==
    /\ ret.op = "alloc"
    /\ Cardinality(grs) >= 2
    /\ \E gr \in grs : ReadGen(gens, Gr_gen(gr.gen_idx)) >= 2

\* The cells of the arena `g`: (block, offset) pairs.
Cells(g) == {<<b - 1, o - 1>> : b \in DOMAIN g, o \in 1..MAX_ALLOCS}

\* C6 (generation counters are monotonic): in every step, blocks are only
\* appended and a new block's counters are all 1; the counter of the slot of
\* a Gr dropped in the step grows by exactly 1; every other counter keeps its
\* value, so none ever decreases or is reset.
C6_CountersMonotonic ==
    [][/\ Len(gens') >= Len(gens)
       /\ \A c \in Cells(gens') \ Cells(gens) : ReadGen(gens', c) = 1
       /\ \A c \in Cells(gens) :
             IF \E gr \in grs \ grs' : Gr_gen(gr.gen_idx) = c
             THEN ReadGen(gens', c) = ReadGen(gens, c) + 1
             ELSE ReadGen(gens', c) = ReadGen(gens, c)]_vars

\* C6's case: a drop has just bumped a counter for the second time (it reads
\* 3) while a counter of another block still has its initial value.
C6_Witness ==
    /\ ret.op = "drop"
    /\ \E c \in Cells(gens) : ReadGen(gens, c) = 3
    /\ \E c \in Cells(gens) : c[1] >= 1 /\ ReadGen(gens, c) = 1

\* The heap addresses that hold a value not yet freed.
LiveAddrs == {a \in Addrs : heap[a] # Freed}

\* The heap values not yet freed are exactly the values owned by the live Gr
\* handles, each in its own box; the box and the slot of an allocation have
\* been released once each if its Gr has been dropped, and not at all otherwise.
Balanced ==
    /\ LiveAddrs = {gr.ptr : gr \in grs}
    /\ \A gr \in grs : heap[gr.ptr] = [id |-> gr.id, val |-> gr.val]
    /\ \A g1 \in grs : \A g2 \in grs : g1.ptr = g2.ptr => g1 = g2
    /\ Cardinality(grs) + Cardinality({i \in Ids : Dropped(i)}) = nextId
    /\ \A i \in Ids :
          /\ freed[i] = (IF Dropped(i) THEN 1 ELSE 0)
          /\ released[i] = (IF Dropped(i) THEN 1 ELSE 0)

\* C7 (allocation and release are paired): an alloc call creates exactly one
\* heap value and takes exactly one slot; a drop frees exactly the value of
\* the Gr dropped and pushes exactly its slot, once; and after every step the
\* heap values not yet freed are exactly those owned by live Gr handles, no
\* value having been freed twice and no slot pushed twice for one acquisition.
C7_AllocReleasePaired ==
    [][/\ Balanced'
       /\ ret'.op = "alloc" =>
             \E gr \in grs' \ grs :
                 /\ grs' = grs \cup {gr}
                 /\ LiveAddrs' = LiveAddrs \cup {gr.ptr}
                 /\ gr.ptr \notin LiveAddrs
                 /\ Held' = Held \cup {gr.gen_idx}
                 /\ gr.gen_idx \notin Held
       /\ ret'.op = "drop" =>
             \E gr \in grs \ grs' :
                 /\ grs' = grs \ {gr}
                 /\ heap' = [heap EXCEPT ![gr.ptr] = Freed]
                 /\ unused' = Append(unused, gr.gen_idx)
                 /\ freed' = [freed EXCEPT ![gr.id] = 1]
                 /\ released' = [released EXCEPT ![gr.id] = 1]]_vars

\* C7's case: a drop has just freed a value, it is the second allocation to
\* be dropped, and another Gr is still live.
C7_Witness ==
    /\ ret.op = "drop"
    /\ Cardinality({i \in Ids : Dropped(i)}) >= 2
    /\ grs # {}

\* C8 (weak() and get() are pure): a call of weak() or get() changes no
\* counter, block, free-list entry, heap value or Gr; get() returning None
\* leaves the interface as usable as before; and in a step that drops no Gr
\* every existing Weak keeps the result its get() gives.
C8_WeakGetPure ==
    [][/\ ret'.op \in {"weak", "get"} =>
             UNCHANGED <<gens, unused, heap, grs, nextId, freed, released, dstack>>
       /\ ret'.op = "get" => weaks' = weaks
       /\ grs \subseteq grs' =>
             \A w \in weaks : Weak_get(gens', w) = Weak_get(gens, w)]_vars

\* C8's case: get() has just returned None while a Gr is live and the free
\* list is not empty.
C8_Witness ==
    /\ ret.op = "get"
    /\ ret.res = None
    /\ grs # {}
    /\ unused # <<>>

\* Two handles carry the same snapshot and the same references.
SameHandle(w1, w2) ==
    w1.ptr = w2.ptr /\ w1.gen = w2.gen /\ w1.alloc_gen = w2.alloc_gen

C10_NoSomeDuringDrop ==
    ~ /\ ret.op = "get"
      /\ ret.res.tag = "Some"
      /\ \E i \in DOMAIN dstack : dstack[i].gr.id = ret.weak.of

\* C11 as stated: with a counter of GenBits bits, a Weak whose Gr has been
\* dropped (so that its counter has been incremented since the snapshot)
\* returns None after any number of further alloc/drop cycles on its slot.
C11_NeverRevived ==
    \A w \in weaks : since[w] > 0 => Weak_get(gens, w) = None

\* C11 as amended: a Weak returns None exactly while the number of times its
\* slot's counter has been incremented since the snapshot is not a multiple
\* of 2^GenBits: None after 1 to 2^GenBits - 1 increments, Some again after
\* the 2^GenBits-th, which wraps the counter back to the snapshot.
C11_NoneUntilWrap ==
    \A w \in weaks :
        (Weak_get(gens, w) = None) <=> (since[w] % GenModulus # 0)

\* C11's case: get() has just returned Some for the Weak of the first Gr,
\* long dropped, whose counter has now been incremented 2^GenBits times since
\* the snapshot; no Gr is live.
C11_Witness ==
    /\ ret.op = "get"
    /\ ret.res.tag = "Some"
    /\ since[ret.weak] = GenModulus
    /\ ret.weak.of = 0
    /\ grs = {}

\* The indices of block number b (0-based).
BlockSlots(b) == (b * MAX_ALLOCS)..(b * MAX_ALLOCS + MAX_ALLOCS - 1)

\* The free list has no duplicate, every index on it or held by a live Gr
\* exists, and free and held slots together are all the slots.
SlotsAccounted ==
    /\ Cardinality(Unused) = Len(unused)
    /\ Unused \cup Held \subseteq Slots
    /\ Len(unused) + Cardinality(grs) = MAX_ALLOCS * Len(gens)

\* C12 (alloc terminates and grows at most once per call): an alloc call
\* returns a Gr; it runs the None arm once if the free list is empty and not
\* at all otherwise; growth appends exactly one block of MAX_ALLOCS counters,
\* all 1, and pushes exactly the indices of that block, none of which existed
\* before; no other call changes the number of blocks; and after every step
\* the free list has no duplicate, every index on it or held is below
\* MAX_ALLOCS * (number of blocks), and (length of the free list) + (number
\* of live Gr) = MAX_ALLOCS * (number of blocks).
C12_GrowsAtMostOnce ==
    [][/\ SlotsAccounted'
       /\ ret'.op = "alloc" =>
             \E gr \in grs' \ grs :
                 /\ ret'.grown = (IF unused = <<>> THEN 1 ELSE 0)
                 /\ Len(gens') = Len(gens) + ret'.grown
                 /\ Len(unused') = Len(unused) + ret'.grown * MAX_ALLOCS - 1
                 /\ ret'.grown = 1 =>
                       /\ gens' = Append(gens, [i \in 1..MAX_ALLOCS |-> 1])
                       /\ Unused' \cup {gr.gen_idx} = BlockSlots(Len(gens))
                       /\ BlockSlots(Len(gens)) \cap Slots = {}
       /\ ret'.op # "alloc" => Len(gens') = Len(gens)]_vars

\* C12's case: alloc has just grown the arena for the second time, after a
\* slot of the first block had been released and taken again.
C12_Witness ==
    /\ ret.op = "alloc"
    /\ ret.grown = 1
    /\ Len(gens) >= 2
    /\ \E gr \in grs : ReadGen(gens, Gr_gen(gr.gen_idx)) >= 2

\* C13 (growth keeps counter cells stable): in a step that appends a block,
\* every existing block keeps its place and its counter values; every
\* existing Gr and every existing Weak stays and refers to the same cell with
\* the same value, so weak() and get() give what they gave before the step;
\* and after any number of growths a Weak validates as the increments of its
\* own counter alone decide: Some iff there has been none since its snapshot.
C13_GrowthKeepsCells ==
    [][/\ Len(gens') > Len(gens) =>
             /\ SubSeq(gens', 1, Len(gens)) = gens
             /\ \A gr \in grs :
                   /\ gr \in grs'
                   /\ Gr_weak(gens', gr) = Gr_weak(gens, gr)
             /\ \A w \in weaks :
                   /\ w \in weaks'
                   /\ ReadGen(gens', w.gen) = ReadGen(gens, w.gen)
                   /\ Weak_get(gens', w) = Weak_get(gens, w)
       /\ \A w \in weaks' :
             (Weak_get(gens', w).tag = "Some") <=> (since'[w] = 0)]_vars

\* C13's case: alloc has just grown the arena while a stale Weak exists and a
\* live Gr in a reused slot has a Weak.
C13_Witness ==
    /\ ret.op = "alloc"
    /\ ret.grown = 1
    /\ Len(gens) >= 2
    /\ \E w \in weaks : since[w] > 0
    /\ \E gr \in grs : \E w \in weaks : w.of = gr.id /\ w.alloc_gen >= 2

\* C14 (no use-after-free through a held reference): in every reachable
\* state, every reference that get() returned as Some and the caller still
\* holds points to storage that has not been freed and still holds the value
\* of the allocation its Weak was derived from.
C14_NoUseAfterFree ==
    \A r \in held : heap[r.ref] # Freed /\ heap[r.ref].id = r.of

\* C15 (LIFO slot reuse): an alloc that does not grow takes the index pushed
\* on the free list most recently and leaves the rest of the list as it was;
\* an alloc that comes right after the drop of a Gr does not grow and takes
\* that Gr's slot, whose counter is then one more than the snapshot of every
\* Weak of the dropped Gr; an alloc that grows takes the highest index of the
\* new block and leaves the block's other indices on the list in rising order.
C15_LifoReuse ==
    [][ret'.op = "alloc" =>
         \E gr \in grs' \ grs :
            /\ ret'.grown = 0 =>
                  /\ gr.gen_idx = unused[Len(unused)]
                  /\ unused' = SubSeq(unused, 1, Len(unused) - 1)
            /\ ret.op = "drop" =>
                  /\ ret'.grown = 0
                  /\ \A w \in weaks :
                        w.of = ret.id =>
                          /\ w.gen = Gr_gen(gr.gen_idx)
                          /\ ReadGen(gens', w.gen) = w.alloc_gen + 1
            /\ ret'.grown = 1 =>
                  /\ gr.gen_idx = MAX_ALLOCS * Len(gens') - 1
                  /\ unused' = [i \in 1..(MAX_ALLOCS - 1) |->
                                  MAX_ALLOCS * Len(gens) + i - 1]]_vars

\* C15's case: two Grs were dropped, the second one with a Weak, and the alloc
\* that has just returned took the second one's slot, the higher index, while
\* the first one's is still on the free list.
C15_Witness ==
    /\ ret.op = "alloc"
    /\ ret.grown = 0
    /\ unused # <<>>
    /\ \E gr \in grs : \E w \in weaks :
          /\ gr.id = nextId
          /\ w.of # gr.id
          /\ w.gen = Gr_gen(gr.gen_idx)
          /\ ReadGen(gens, w.gen) = w.alloc_gen + 1
          /\ gr.gen_idx > unused[Len(unused)]

====
